---- MODULE Spec2Model ----
(***************************************************************************)
(* Model of the presentation protocol core of mina-attestations:           *)
(*   - pickCredentials          (examples/unique-hash.eg.ts, 298-326)      *)
(*   - recursiveFromProgram's compile cache                                *)
(*                              (src/credential-recursive.ts, 180-217)     *)
(*   - PresentationRequest.noContext / withContext, Presentation.compile,  *)
(*     createPresentation       (examples/unique-hash.eg.ts, 179-296)      *)
(*   - verify, verifyOutsideCircuit and issuer of Recursive(...) and       *)
(*     Recursive.Generic        (src/credential-recursive.ts, 47-136)      *)
(* Each part has its own specification (SpecPick, SpecCompile, SpecCreate, *)
(* SpecContext, SpecRecursive); the variables of the other parts stay at   *)
(* their idle values.                                                      *)
(***************************************************************************)
EXTENDS Integers, Sequences, FiniteSets, TLC

VARIABLES
    \* ---- pickCredentials ----
    pkNeeded,    \* argument credentialsNeeded: string[]
    pkCreds,     \* the caller's credentials array (argument 2)
    pkPc,        \* "call" | "returned" | "threw"
    pkRes,       \* the locals of pickCredentials when it returned or threw
    \* ---- recursiveFromProgram: the compile cache of one credential spec ----
    isCompiled,      \* let isCompiled = false
    vk,              \* let vk: VerificationKey | undefined
    backendCompiles, \* number of program.compile(options) invocations so far
    cc,              \* the compile() calls: their position, arguments and results
    overlapped,      \* history: some compile() started while another was awaiting
    \* ---- Presentation.compile / Presentation.create / Presentation.verify ----
    request,      \* the PresentationRequest as the verifier built it (no program)
    wallet,       \* what the wallet passes to create: walletContext, credentials
    programs,     \* the Programs createProgram has returned, in creation order
    compiledReq,  \* program of the request Presentation.compile returned (0: none)
    progCompiles, \* number of backend compilations of Programs
    uc,           \* the wallet's own Presentation.compile call
    cr,           \* the current createPresentation call: position and locals
    creates,      \* number of create calls made
    crStat,       \* history of the create calls: programs made and compiled
                  \* inside them, request objects passed, presentations returned
    vf,           \* the verifier's Presentation.verify call and its result
    \* ---- Recursive(...) / Recursive.Generic: verify, verifyOutsideCircuit, issuer ----
    rcSpec,       \* which credential spec is used: "Recursive" | "Generic"
    rcWitness,    \* the witness { type: 'recursive', vk, proof }
    rcCredHash,   \* the expected credential hash handed to verify: { hash }
    rcRes         \* outcome of verify, verifyOutsideCircuit and issuer so far

pickVars == <<pkNeeded, pkCreds, pkPc, pkRes>>
compileVars == <<isCompiled, vk, backendCompiles, cc, overlapped>>

createVars == <<request, wallet, programs, compiledReq, progCompiles, uc, cr, creates, crStat, vf>>

recVars == <<rcSpec, rcWitness, rcCredHash, rcRes>>

vars == <<pickVars, compileVars, createVars, recVars>>

(***************************************************************************)
(* Bounds and input domains                                                *)
(***************************************************************************)
\* longest credential array handed to pickCredentials
MaxPool == 3
\* longest list of needed keys
MaxNeeded == 3

\* names of the credential inputs of a program spec (Object.entries keys)
Keys == {"a", "b", "c"}
\* key of a stored credential that carries no `key` property (undefined)
NoKey == "undefined"
\* tags a wallet may put on a stored credential; "z" is no input of any spec
Tags == Keys \cup {"z", NoKey}

\* a stored credential of the caller's array; id is its position there
Cred(i, tag) == [id |-> i, key |-> tag]
\* value of credentialsUsed[k] for a key that was never assigned
NoCred == [id |-> 0, key |-> NoKey]

SeqsUpTo(S, n) == UNION {[1..m -> S] : m \in 0..n}
IsInjective(s) == \A i, j \in DOMAIN s : s[i] = s[j] => i = j

\* Object.entries(...).map(([key]) => key): distinct property names, in order
NeededLists == {s \in SeqsUpTo(Keys, MaxNeeded) : IsInjective(s)}
\* the wallet's arrays: any tags, position i holds credential i
CredLists == {[i \in DOMAIN t |-> Cred(i, t[i])] : t \in SeqsUpTo(Tags, MaxPool)}

(***************************************************************************)
(* pickCredentials                                                         *)
(***************************************************************************)
\* a search that returns the last match instead of the first
FindIndexLast(credentials, key) ==
    IF \E i \in DOMAIN credentials : credentials[i].key = key
    THEN CHOOSE i \in DOMAIN credentials :
            /\ credentials[i].key = key
            /\ \A j \in DOMAIN credentials : credentials[j].key = key => j <= i
    ELSE 0

\* credentials.findIndex((c) => c.key === key); 0 stands for JavaScript's -1
FindIndex(credentials, key) ==
    IF \E i \in DOMAIN credentials : credentials[i].key = key
    THEN CHOOSE i \in DOMAIN credentials :
            /\ credentials[i].key = key
            /\ \A j \in DOMAIN credentials : credentials[j].key = key => i <= j
    ELSE 0

\* a splice that removes nothing: the bound credential stays in the pool
SpliceNothing(credentials, i) == credentials

\* credentials.splice(i, 1)
Splice(credentials, i) ==
    [j \in 1..(Len(credentials) - 1) |->
        IF j < i THEN credentials[j] ELSE credentials[j + 1]]

\* [...credentials]: the parameter pattern copies the caller's array
CopyArray(credentials) == [j \in 1..Len(credentials) |-> credentials[j]]

\* a plain parameter `credentials`: the local is the caller's array itself
BindParameterNoSpread(credentials) ==
    [object |-> "caller", items |-> credentials]

\* binding of the second parameter: the local `credentials` is a new array
\* object that holds the elements of the caller's array
BindParameter(credentials) ==
    [object |-> "copy", items |-> CopyArray(credentials)]

\* the caller's array once the call is over: splices on the local show in it
\* only when the local is the same object
CallerArrayAfter(credentials, st) ==
    IF BindParameter(credentials).object = "caller" THEN st.credentials
    ELSE credentials

\* the locals at function entry
PickStart(credentials) ==
    [credentials |-> BindParameter(credentials).items,
     credentialsUsed |-> [k \in Keys |-> NoCred],
     credentialsStillNeeded |-> <<>>]

\* one iteration of the first loop (for key of credentialsNeeded)
TagStep(st, key) ==
    LET i == FindIndex(st.credentials, key) IN
    IF i = 0
    THEN [st EXCEPT !.credentialsStillNeeded = Append(@, key)]
    ELSE [st EXCEPT !.credentialsUsed[key] = st.credentials[i],
                    !.credentials = Splice(@, i)]

RECURSIVE TagFrom(_, _, _)
TagFrom(st, credentialsNeeded, n) ==
    IF n > Len(credentialsNeeded) THEN st
    ELSE TagFrom(TagStep(st, credentialsNeeded[n]), credentialsNeeded, n + 1)

\* the first loop
TagPass(credentialsNeeded, credentials) ==
    TagFrom(PickStart(credentials), credentialsNeeded, 1)

\* FillFrom with the plausible slip of reading credentialsStillNeeded[0]
\* without shift(): the key stays listed after it was bound
RECURSIVE FillFromNoShift(_, _)
FillFromNoShift(st, j) ==
    IF j > Len(st.credentials) \/ st.credentialsStillNeeded = <<>> THEN st
    ELSE FillFromNoShift(
            [st EXCEPT
                !.credentialsUsed[Head(st.credentialsStillNeeded)] = st.credentials[j]],
            j + 1)

\* FillFrom with pop() in place of shift(): the last unbound key is served first
RECURSIVE FillFromPop(_, _)
FillFromPop(st, j) ==
    IF j > Len(st.credentials) \/ st.credentialsStillNeeded = <<>> THEN st
    ELSE LET n == Len(st.credentialsStillNeeded) IN
         FillFromPop(
            [st EXCEPT
                !.credentialsUsed[st.credentialsStillNeeded[n]] = st.credentials[j],
                !.credentialsStillNeeded = SubSeq(@, 1, n - 1)],
            j + 1)

\* the second loop (for credential of credentials), from array position j
RECURSIVE FillFrom(_, _)
FillFrom(st, j) ==
    IF j > Len(st.credentials) \/ st.credentialsStillNeeded = <<>> THEN st
    ELSE FillFrom(
            [st EXCEPT
                !.credentialsUsed[Head(st.credentialsStillNeeded)] = st.credentials[j],
                !.credentialsStillNeeded = Tail(@)],
            j + 1)

FillPass(st) == FillFrom(st, 1)

\* the closing assert: true when it throws 'Missing credentials: ...'
PickThrows(st) == st.credentialsStillNeeded # <<>>

\* the whole function: ok = returned; missing = the keys the error message joins
pickCredentials(credentialsNeeded, credentials) ==
    LET st == FillPass(TagPass(credentialsNeeded, credentials)) IN
    [ok |-> ~PickThrows(st),
     credentialsUsed |-> st.credentialsUsed,
     missing |-> st.credentialsStillNeeded,
     credentials |-> st.credentials]

\* pkRes before the call
NoPickRes == [ok |-> FALSE, credentialsUsed |-> [k \in Keys |-> NoCred],
              missing |-> <<>>, credentials |-> <<>>]

(***************************************************************************)
(* recursiveFromProgram(program).compile                                   *)
(***************************************************************************)
\* number of compile() calls made on the one credential spec
MaxCalls == 3
CallIds == 1..MaxCalls

\* vk while it is still undefined
NoVK == [hash |-> "undefined", compileNo |-> 0]
\* result.verificationKey of the n-th program.compile invocation: the key of
\* the one program, in the object that invocation returned
BackendVK(n) == [hash |-> "vkOfProgram", compileNo |-> n]

IdleCall ==
    [pc |-> "idle", forceRecompile |-> FALSE, invoked |-> 0, ret |-> NoVK,
     sawCompiled |-> FALSE, cachedAtEntry |-> NoVK, beforeAnyFinished |-> FALSE]

Finished(c) == cc[c].pc \in {"done", "failed"}
Awaiting(c) == cc[c].pc = "awaiting"

\* a compile that takes the fast path whatever the cache holds: never
CacheHitNever(options) == FALSE

\* if (isCompiled) return vk!  -- options is not consulted
CacheHit(options) == isCompiled

\* compile(options) up to its first await: the cache test, and on a miss the
\* invocation of program.compile(options)
CompileCall(c, force) ==
    /\ cc[c].pc = "idle"
    /\ c > 1 => cc[c - 1].pc # "idle"
    /\ LET entry == [cc[c] EXCEPT
                        !.forceRecompile = force,
                        !.sawCompiled = isCompiled,
                        !.cachedAtEntry = vk,
                        !.beforeAnyFinished = \A d \in CallIds : ~Finished(d)]
       IN  IF CacheHit([forceRecompile |-> force])
           THEN /\ cc' = [cc EXCEPT ![c] = [entry EXCEPT !.pc = "done", !.ret = vk]]
                /\ UNCHANGED backendCompiles
           ELSE /\ backendCompiles' = backendCompiles + 1
                /\ cc' = [cc EXCEPT ![c] =
                            [entry EXCEPT !.pc = "awaiting",
                                          !.invoked = backendCompiles + 1]]
    /\ overlapped' = (overlapped \/ \E d \in CallIds : Awaiting(d))
    /\ UNCHANGED <<isCompiled, vk>>

\* program.compile resolved: vk = result.verificationKey; isCompiled = true; return vk
CompileResolve(c) ==
    /\ Awaiting(c)
    /\ vk' = BackendVK(cc[c].invoked)
    /\ isCompiled' = TRUE
    /\ cc' = [cc EXCEPT ![c] = [@ EXCEPT !.pc = "done", !.ret = vk']]
    /\ UNCHANGED <<backendCompiles, overlapped>>

\* a rejection that marks the cache as filled although no key was assigned
CompileRejectMarksCompiled(c) ==
    /\ Awaiting(c)
    /\ isCompiled' = TRUE
    /\ cc' = [cc EXCEPT ![c] = [@ EXCEPT !.pc = "failed"]]
    /\ UNCHANGED <<vk, backendCompiles, overlapped>>

\* program.compile rejected: the await throws, nothing is assigned
CompileReject(c) ==
    /\ Awaiting(c)
    /\ cc' = [cc EXCEPT ![c] = [@ EXCEPT !.pc = "failed"]]
    /\ UNCHANGED <<isCompiled, vk, backendCompiles, overlapped>>

\* keys that credentialsUsed has a property for
BoundKeys(credentialsUsed) == {k \in Keys : credentialsUsed[k] # NoCred}
SeqRange(s) == {s[i] : i \in DOMAIN s}

(***************************************************************************)
(* PresentationRequest: noContext, withContext and deriveContext           *)
(***************************************************************************)
\* the program specs a verifier may send
Specs == {"A", "B"}
\* Object.entries(programSpec.inputs) filtered to the credential inputs
NeededOf(programSpec) == IF programSpec = "A" THEN <<"a">> ELSE <<"a", "b">>

ClaimValues == {"claims1", "claims2"}
ContextTypes == {"zk-app", "https"}
Actions == {"act1", "act2"}
ServerNonces == {"sn1", "sn2"}
ClientNonces == {"cn1", "cn2"}
VerifierIdentities == {"vi1", "vi2"}

\* verification key the backend compiles for a program spec, and its hash
VKOf(programSpec) == [hash |-> "vkh" \o programSpec, compileNo |-> 0]
VKHashOf(programSpec) == VKOf(programSpec).hash
\* contextConfig.presentationCircuitVKHash is an argument of withContext
VKHashes == {VKHashOf(sp) : sp \in Specs}

\* create's walletContext argument; it is optional
NoWalletContext == [present |-> FALSE, verifierIdentity |-> "undefined",
                    clientNonce |-> "undefined"]
WalletContexts ==
    {NoWalletContext} \cup
    [present : {TRUE}, verifierIdentity : VerifierIdentities, clientNonce : ClientNonces]

\* Poseidon.hash and the hash inside generateContext, taken collision-free:
\* the hash of a list of fields is the list itself under a tag
PoseidonHash(fields) == <<"hash">> \o fields
\* Field(0)
FieldZero == <<"0">>

\* PresentationRequest.noContext(programSpec, claims)
noContext(programSpec, claims) ==
    [kind |-> "noContext", programSpec |-> programSpec, claims |-> claims,
     type |-> "undefined", presentationCircuitVKHash |-> "undefined",
     action |-> "undefined", serverNonce |-> "undefined",
     claimsHash |-> <<>>]

\* PresentationRequest.withContext(programSpec, claims, contextConfig, inputContext);
\* claimsHash is computed once, when the request is built
withContext(programSpec, claims, contextConfig, inputContext) ==
    [kind |-> "withContext", programSpec |-> programSpec, claims |-> claims,
     type |-> contextConfig.type,
     presentationCircuitVKHash |-> contextConfig.presentationCircuitVKHash,
     action |-> inputContext.action, serverNonce |-> inputContext.serverNonce,
     claimsHash |-> PoseidonHash(<<claims>>)]

ContextlessRequests == {noContext(sp, cl) : sp \in Specs, cl \in ClaimValues}
ContextfulRequests ==
    {withContext(sp, cl, cfg, ic) :
        sp \in Specs, cl \in ClaimValues,
        cfg \in [type : ContextTypes, presentationCircuitVKHash : VKHashes],
        ic \in [action : Actions, serverNonce : ServerNonces]}
Requests == ContextlessRequests \cup ContextfulRequests

\* computeContext(contextParams): the hash inputs in the order of spec 4.3
computeContext(p) ==
    <<p.type, p.presentationCircuitVKHash, p.clientNonce, p.serverNonce,
      p.verifierIdentity, p.action, p.claims>>
\* generateContext(computedContext)
generateContext(computed) == PoseidonHash(computed)

\* a deriveContext that depends on the wallet context
NoContextDeriveFromWallet(walletContext) ==
    [ok |-> TRUE,
     context |-> IF walletContext.present
                 THEN PoseidonHash(<<walletContext.verifierIdentity>>)
                 ELSE FieldZero]

\* deriveContext of a noContext request: () => Field(0)
NoContextDerive(walletContext) == [ok |-> TRUE, context |-> FieldZero]

\* a deriveContext whose contextParams leave the wallet's clientNonce out
WithContextDeriveNoClientNonce(req, walletContext) ==
    IF ~walletContext.present
    THEN [ok |-> FALSE, context |-> FieldZero]
    ELSE [ok |-> TRUE,
          context |-> generateContext(computeContext(
              [type |-> req.type,
               presentationCircuitVKHash |-> req.presentationCircuitVKHash,
               clientNonce |-> req.serverNonce,
               serverNonce |-> req.serverNonce,
               verifierIdentity |-> walletContext.verifierIdentity,
               action |-> req.action,
               claims |-> req.claimsHash]))]

\* deriveContext of a withContext request; destructuring an absent
\* walletContext throws (ok = FALSE)
WithContextDerive(req, walletContext) ==
    IF ~walletContext.present
    THEN [ok |-> FALSE, context |-> FieldZero]
    ELSE [ok |-> TRUE,
          context |-> generateContext(computeContext(
              [type |-> req.type,
               presentationCircuitVKHash |-> req.presentationCircuitVKHash,
               clientNonce |-> walletContext.clientNonce,
               serverNonce |-> req.serverNonce,
               verifierIdentity |-> walletContext.verifierIdentity,
               action |-> req.action,
               claims |-> req.claimsHash]))]

\* request.deriveContext(walletContext)
deriveContext(req, walletContext) ==
    IF req.kind = "noContext"
    THEN NoContextDerive(walletContext)
    ELSE WithContextDerive(req, walletContext)

(***************************************************************************)
(* Program (createProgram, compile, run), signCredentials and              *)
(* Presentation.verify                                                     *)
(***************************************************************************)
\* createProgram(programSpec): a new Program, not compiled yet
createProgram(programSpec) == [spec |-> programSpec, compiled |-> FALSE]

\* signCredentials(ownerKey, context, ...credentials)
signCredentials(ownerKey, context, credentials) ==
    [signer |-> ownerKey, context |-> context, credentials |-> credentials]

\* run arguments that carry the contextless sentinel instead of `context`
RunInputsZeroContext(context, req, ownerSignature, credentialsUsed) ==
    [context |-> FieldZero, claims |-> req.claims,
     ownerSignature |-> ownerSignature, credentials |-> credentialsUsed]

\* run arguments that leave out the request's claims
RunInputsNoClaims(context, req, ownerSignature, credentialsUsed) ==
    [context |-> context, claims |-> "undefined",
     ownerSignature |-> ownerSignature, credentials |-> credentialsUsed]

\* the arguments createPresentation hands to program.run
RunInputs(context, req, ownerSignature, credentialsUsed) ==
    [context |-> context, claims |-> req.claims,
     ownerSignature |-> ownerSignature, credentials |-> credentialsUsed]

\* plain evaluation of spec.outputClaim over the bound inputs
OutputClaim(programSpec, claims, credentials) ==
    [spec |-> programSpec, claims |-> claims, credentials |-> credentials]

\* the program's check of the ownership signature over (context, credentials)
RunAccepts(inputs) ==
    /\ inputs.ownerSignature.context = inputs.context
    /\ inputs.ownerSignature.credentials = inputs.credentials

\* program.run(inputs) when the circuit is satisfied: the proof
RunProof(program, inputs) ==
    [vk |-> VKOf(program.spec),
     publicInput |-> [context |-> inputs.context, claims |-> inputs.claims],
     publicOutput |-> OutputClaim(program.spec, inputs.claims, inputs.credentials)]

NoProof == [vk |-> NoVK, publicInput |-> [context |-> FieldZero, claims |-> "undefined"],
            publicOutput |-> OutputClaim("undefined", "undefined", [k \in Keys |-> NoCred])]
NoPresentation ==
    [version |-> "undefined", claims |-> "undefined",
     outputClaim |-> NoProof.publicOutput, proof |-> NoProof]

\* the object a create returns, with the request's spec name as outputClaim
PresentationStaleOutput(req, proof) ==
    [version |-> "v0", claims |-> req.claims,
     outputClaim |-> OutputClaim(req.programSpec, req.claims,
                                 [k \in Keys |-> NoCred]),
     proof |-> proof]

\* the object createPresentation returns
Presentation(req, proof) ==
    [version |-> "v0", claims |-> req.claims,
     outputClaim |-> proof.publicOutput, proof |-> proof]

\* Presentation.verify(request, presentation, walletContext): recompute the
\* context, check the proof against the request's program key and the
\* recomputed public input; the outputClaim on success, InvalidProof otherwise
verify(req, presentation, walletContext) ==
    LET d == deriveContext(req, walletContext)
        ok == /\ d.ok
              /\ presentation.proof.vk = VKOf(req.programSpec)
              /\ presentation.proof.publicInput =
                    [context |-> d.context, claims |-> req.claims]
    IN  [ok |-> ok, context |-> d.context,
         outputClaim |-> IF ok THEN presentation.outputClaim ELSE NoProof.publicOutput]

(***************************************************************************)
(* Presentation.compile and createPresentation: state                      *)
(***************************************************************************)
\* number of Presentation.create calls on the one request
MaxCreates == 2
\* longest credentials array handed to Presentation.create
MaxCreatePool == 2

OwnerKey == "ownerKey"
NoSignature == signCredentials("undefined", FieldZero, [k \in Keys |-> NoCred])
NoRunInputs == RunInputs(FieldZero, noContext("undefined", "undefined"),
                         NoSignature, [k \in Keys |-> NoCred])

\* the locals of createPresentation before it is called
IdleCreate ==
    [pc |-> "idle", reqObj |-> "plain", walletContext |-> NoWalletContext,
     credentials |-> <<>>, context |-> FieldZero, program |-> 0,
     picked |-> NoPickRes, ownerSignature |-> NoSignature,
     inputs |-> NoRunInputs, runs |-> 0, failedAt |-> "none",
     result |-> NoPresentation]

NoVerification ==
    [done |-> FALSE, request |-> noContext("undefined", "undefined"),
     walletContext |-> NoWalletContext,
     res |-> [ok |-> FALSE, context |-> FieldZero,
              outputClaim |-> NoProof.publicOutput]]

\* the arrays a wallet passes to create
CreatePools ==
    {[i \in DOMAIN t |-> Cred(i, t[i])] : t \in SeqsUpTo({"a", "b", NoKey}, MaxCreatePool)}
\* requests of the create/verify flow: either kind, either program spec, any
\* configured key hash; one claims value, transport, action and server nonce
FlowRequests ==
    {r \in Requests :
        /\ r.claims = "claims1"
        /\ r.kind = "withContext" =>
              r.type = "https" /\ r.action = "act1" /\ r.serverNonce = "sn1"}
\* arrays used where the context is the subject: none, and one that serves A and B
ContextPools == {<<>>, <<Cred(1, NoKey), Cred(2, "b")>>}

(***************************************************************************)
(* Recursive(Proof, dataType) and Recursive.Generic                        *)
(***************************************************************************)
\* hashes of the verification keys a witness may carry
RecVKHashes == {"vkhInner1", "vkhInner2"}
\* a VerificationKey: { data, hash }
RecVK(h) == [hash |-> h, data |-> "dataOf" \o h]
RecVKs == {RecVK(h) : h \in RecVKHashes}

\* Credential<Data> = { owner, data }, the public output type of the inner program
Owners == {"alice", "bob"}
DataValues == {"d1", "d2"}
Credentials == [owner : Owners, data : DataValues]

\* values of the inner program's public input type: a struct of two fields
InputFields == {"p", "q"}
PublicInputs == [first : InputFields, second : InputFields]
\* publicInputType.toFields(publicInput): the struct's fields in declaration order
ToFields(publicInput) == <<publicInput.first, publicInput.second>>

\* a DynamicProof: its public input and output, and the key of the program
\* that produced it ("forged": no program did)
InnerProofs ==
    [publicInput : PublicInputs, publicOutput : Credentials,
     provedWith : RecVKHashes \cup {"forged"}]

RecWitnesses == [type : {"recursive"}, vk : RecVKs, proof : InnerProofs]

\* hashCredentialInCircuit(dataType, credential): { hash } over owner and data
hashCredentialInCircuit(dataType, credential) ==
    [hash |-> PoseidonHash(<<credential.owner, credential.data>>)]
\* credentialHash(credential): the same hash, of a credential of unknown type
credentialHash(credential) == PoseidonHash(<<credential.owner, credential.data>>)

\* the expected hash a caller passes: the hash of the credential it declares
CredHashes == {hashCredentialInCircuit("dataType", c) : c \in Credentials}

\* proof.verify(vk) inside the circuit: the constraint that the proof is one
\* of the program with key vk, for its public input and output
ProofVerify(proof, vkey) == proof.provedWith = vkey.hash
\* verify(proof, vk) of o1js, outside the circuit: the same statement, as a boolean
VerifyProof(proof, vkey) == proof.provedWith = vkey.hash

\* Poseidon.hashWithPrefix(prefix, fields)
hashWithPrefix(prefix, fields) == <<"hash", prefix>> \o fields
\* prefixes.issuerRecursive
IssuerRecursivePrefix == "issuerRecursive"

\* a verify that leaves out the comparison with the expected credential hash
RecursiveVerifyNoOutputCheck(witness, credHash) ==
    IF ~ProofVerify(witness.proof, witness.vk) THEN "Invalid proof"
    ELSE "ok"

\* Recursive(Proof, dataType).verify({ vk, proof }, credHash): "ok" when every
\* constraint holds, else the check that fails
RecursiveVerify(witness, credHash) ==
    IF ~ProofVerify(witness.proof, witness.vk) THEN "Invalid proof"
    ELSE IF hashCredentialInCircuit("dataType", witness.proof.publicOutput).hash
                # credHash.hash
         THEN "Invalid proof output"
         ELSE "ok"

\* a verifyOutsideCircuit that computes `ok` and does not assert it
RecursiveVerifyOutsideNoAssert(witness, credHash) ==
    IF hashCredentialInCircuit("dataType", witness.proof.publicOutput).hash
          # credHash.hash
    THEN "Invalid proof output"
    ELSE "ok"

\* Recursive(Proof, dataType).verifyOutsideCircuit({ vk, proof }, credHash)
RecursiveVerifyOutsideCircuit(witness, credHash) ==
    LET ok == VerifyProof(witness.proof, witness.vk) IN
    IF ~ok THEN "Invalid proof"
    ELSE IF hashCredentialInCircuit("dataType", witness.proof.publicOutput).hash
                # credHash.hash
         THEN "Invalid proof output"
         ELSE "ok"

\* an issuer that identifies the credential by the proof's public output
RecursiveIssuerFromOutput(witness) ==
    LET credIdent == PoseidonHash(<<witness.proof.publicOutput.owner,
                                    witness.proof.publicOutput.data>>)
    IN  hashWithPrefix(IssuerRecursivePrefix, <<witness.vk.hash, credIdent>>)

\* Recursive(Proof, dataType).issuer({ vk, proof })
RecursiveIssuer(witness) ==
    LET credIdent == PoseidonHash(ToFields(witness.proof.publicInput))
    IN  hashWithPrefix(IssuerRecursivePrefix, <<witness.vk.hash, credIdent>>)

\* genericRecursive.verify({ vk, proof }, credHash)
GenericVerify(witness, credHash) ==
    IF ~ProofVerify(witness.proof, witness.vk) THEN "Invalid proof"
    ELSE IF credentialHash(witness.proof.publicOutput) # credHash.hash
         THEN "Invalid proof output"
         ELSE "ok"

\* genericRecursive.verifyOutsideCircuit({ vk, proof }, credHash)
GenericVerifyOutsideCircuit(witness, credHash) ==
    LET ok == VerifyProof(witness.proof, witness.vk) IN
    IF ~ok THEN "Invalid proof"
    ELSE IF credentialHash(witness.proof.publicOutput) # credHash.hash
         THEN "Invalid proof output"
         ELSE "ok"

\* genericRecursive.issuer({ vk, proof })
GenericIssuer(witness) ==
    LET credIdent == PoseidonHash(ToFields(witness.proof.publicInput))
    IN  hashWithPrefix(IssuerRecursivePrefix, <<witness.vk.hash, credIdent>>)

\* the credential specs: Recursive(Proof, dataType) and Recursive.Generic
RecSpecs == {"Recursive", "Generic"}

NoIssuer == hashWithPrefix("undefined", <<"undefined", PoseidonHash(<<>>)>>)
\* rcRes before any method was called
NoRecRes == [verify |-> "none", verifyOutsideCircuit |-> "none",
             issuerCalled |-> FALSE, issuer |-> NoIssuer]
NoRecWitness ==
    [type |-> "undefined", vk |-> RecVK("undefined"),
     proof |-> [publicInput |-> [first |-> "undefined", second |-> "undefined"],
                publicOutput |-> [owner |-> "undefined", data |-> "undefined"],
                provedWith |-> "forged"]]

(***************************************************************************)
(* The parts at rest                                                       *)
(***************************************************************************)
\* no pickCredentials call in this behaviour
PickIdle ==
    /\ pkNeeded = <<>>
    /\ pkCreds = <<>>
    /\ pkPc = "idle"
    /\ pkRes = NoPickRes

\* the spec as recursiveFromProgram returns it: nothing compiled, no call made
CompileIdle ==
    /\ isCompiled = FALSE
    /\ vk = NoVK
    /\ backendCompiles = 0
    /\ cc = [c \in CallIds |-> IdleCall]
    /\ overlapped = FALSE

\* no request, no program, no create call
CreateIdle ==
    /\ request = noContext("undefined", "undefined")
    /\ wallet = [walletContext |-> NoWalletContext, credentials |-> <<>>]
    /\ programs = <<>>
    /\ compiledReq = 0
    /\ progCompiles = 0
    /\ uc = "idle"
    /\ cr = IdleCreate
    /\ creates = 0
    /\ crStat = [made |-> 0, compiles |-> 0, reqs |-> {}, returned |-> 0]
    /\ vf = NoVerification

\* no recursive credential in this behaviour
RecIdle ==
    /\ rcSpec = "undefined"
    /\ rcWitness = NoRecWitness
    /\ rcCredHash = [hash |-> PoseidonHash(<<>>)]
    /\ rcRes = NoRecRes

(***************************************************************************)
(* Specification of pickCredentials                                        *)
(***************************************************************************)
InitPick ==
    /\ pkNeeded \in NeededLists
    /\ pkCreds \in CredLists
    /\ pkPc = "call"
    /\ pkRes = NoPickRes
    /\ CompileIdle
    /\ CreateIdle
    /\ RecIdle

\* a call pickCredentials(pkNeeded, pkCreds), run to its return or its throw
Pick ==
    /\ pkPc = "call"
    /\ pkRes' = pickCredentials(pkNeeded, pkCreds)
    /\ pkPc' = IF pkRes'.ok THEN "returned" ELSE "threw"
    /\ pkCreds' = CallerArrayAfter(pkCreds, pkRes')
    /\ UNCHANGED pkNeeded
    /\ UNCHANGED <<compileVars, createVars, recVars>>

NextPick == Pick

SpecPick == InitPick /\ [][NextPick]_vars

(***************************************************************************)
(* Specification of the compile cache                                      *)
(***************************************************************************)
InitCompile ==
    /\ CompileIdle
    /\ PickIdle
    /\ CreateIdle
    /\ RecIdle

NextCompile ==
    \/ \E c \in CallIds, force \in BOOLEAN :
          CompileCall(c, force) /\ UNCHANGED <<pickVars, createVars, recVars>>
    \/ \E c \in CallIds : CompileResolve(c) /\ UNCHANGED <<pickVars, createVars, recVars>>
    \/ \E c \in CallIds : CompileReject(c) /\ UNCHANGED <<pickVars, createVars, recVars>>

SpecCompile == InitCompile /\ [][NextCompile]_vars

(***************************************************************************)
(* Specifications of Presentation.compile / create / verify                *)
(***************************************************************************)
CreateStart(requests, walletContexts, pools) ==
    /\ request \in requests
    /\ wallet \in [walletContext : walletContexts, credentials : pools]
    /\ programs = <<>>
    /\ compiledReq = 0
    /\ progCompiles = 0
    /\ uc = "idle"
    /\ cr = IdleCreate
    /\ creates = 0
    /\ crStat = [made |-> 0, compiles |-> 0, reqs |-> {}, returned |-> 0]
    /\ vf = NoVerification
    /\ PickIdle
    /\ CompileIdle
    /\ RecIdle

Resting == cr.pc \in {"idle", "returned", "failed"} /\ uc # "compiling"

\* Program.compile is memoized per Program instance
ProgramCompileCached(program) == program.compiled

\* the wallet calls Presentation.compile(request) on the request as received:
\* createProgram, then program.compile() is awaited
UserCompileCall ==
    /\ Resting
    /\ uc = "idle"
    /\ programs' = Append(programs, createProgram(request.programSpec))
    /\ progCompiles' = progCompiles + 1
    /\ uc' = "compiling"
    /\ UNCHANGED <<request, wallet, compiledReq, cr, creates, crStat, vf>>
    /\ UNCHANGED <<pickVars, compileVars, recVars>>

\* program.compile() resolved: return { ...request, program }
UserCompileDone ==
    /\ uc = "compiling"
    /\ programs' = [programs EXCEPT ![Len(programs)].compiled = TRUE]
    /\ compiledReq' = Len(programs)
    /\ uc' = "done"
    /\ UNCHANGED <<request, wallet, progCompiles, cr, creates, crStat, vf>>
    /\ UNCHANGED <<pickVars, compileVars, recVars>>

\* program.compile() rejected: Presentation.compile throws
UserCompileFail ==
    /\ uc = "compiling"
    /\ uc' = "failed"
    /\ UNCHANGED <<request, wallet, programs, compiledReq, progCompiles, cr, creates, crStat, vf>>
    /\ UNCHANGED <<pickVars, compileVars, recVars>>

\* Presentation.create(ownerKey, { request, walletContext, credentials }), with
\* the request as received ("plain") or as Presentation.compile returned it,
\* and the wallet's context and credentials
CreateCall(reqObjs, limit) ==
    /\ Resting
    /\ creates < limit
    /\ \E r \in reqObjs :
          /\ r = "compiled" => compiledReq # 0
          /\ cr' = [IdleCreate EXCEPT !.pc = "derive", !.reqObj = r,
                                      !.walletContext = wallet.walletContext,
                                      !.credentials = wallet.credentials]
          /\ crStat' = [crStat EXCEPT !.reqs = @ \cup {r}]
    /\ creates' = creates + 1
    /\ vf' = NoVerification
    /\ UNCHANGED <<request, wallet, programs, compiledReq, progCompiles, uc>>
    /\ UNCHANGED <<pickVars, compileVars, recVars>>

Fail(step) == cr' = [cr EXCEPT !.pc = "failed", !.failedAt = step]

\* let context = request.deriveContext(walletContext)
CrDerive ==
    /\ cr.pc = "derive"
    /\ LET d == deriveContext(request, cr.walletContext) IN
       IF d.ok THEN cr' = [cr EXCEPT !.pc = "compile", !.context = d.context]
       ELSE Fail("derive")
    /\ UNCHANGED <<request, wallet, programs, compiledReq, progCompiles, uc, creates, crStat, vf>>
    /\ UNCHANGED <<pickVars, compileVars, recVars>>

\* Presentation.compile(request): request.program ?? createProgram(...), then
\* program.compile() is awaited
CrCompile ==
    /\ cr.pc = "compile"
    /\ LET given == IF cr.reqObj = "compiled" THEN compiledReq ELSE 0
           p == IF given # 0 THEN given ELSE Len(programs) + 1
           ps == IF given # 0 THEN programs
                 ELSE Append(programs, createProgram(request.programSpec))
           cached == ProgramCompileCached(ps[p])
       IN  /\ programs' = ps
           /\ progCompiles' = IF cached THEN progCompiles ELSE progCompiles + 1
           /\ cr' = [cr EXCEPT !.program = p,
                               !.pc = IF cached THEN "pick" ELSE "compiling"]
           /\ crStat' = [crStat EXCEPT
                            !.made = IF given # 0 THEN @ ELSE @ + 1,
                            !.compiles = IF cached THEN @ ELSE @ + 1]
    /\ UNCHANGED <<request, wallet, compiledReq, uc, creates, vf>>
    /\ UNCHANGED <<pickVars, compileVars, recVars>>

\* program.compile() resolved
CrCompileDone ==
    /\ cr.pc = "compiling"
    /\ programs' = [programs EXCEPT ![cr.program].compiled = TRUE]
    /\ cr' = [cr EXCEPT !.pc = "pick"]
    /\ UNCHANGED <<request, wallet, compiledReq, progCompiles, uc, creates, crStat, vf>>
    /\ UNCHANGED <<pickVars, compileVars, recVars>>

\* program.compile() rejected
CrCompileFail ==
    /\ cr.pc = "compiling"
    /\ Fail("compile")
    /\ UNCHANGED <<request, wallet, programs, compiledReq, progCompiles, uc, creates, crStat, vf>>
    /\ UNCHANGED <<pickVars, compileVars, recVars>>

\* a create that goes on after pickCredentials threw
CrPickThrowsNever(picked) == FALSE

\* the throw of pickCredentials leaves createPresentation (no try/catch)
CrPickThrows(picked) == ~picked.ok

\* let credentialsUsed = pickCredentials(credentialsNeeded.map(...), credentials)
CrPick ==
    /\ cr.pc = "pick"
    /\ LET picked == pickCredentials(NeededOf(request.programSpec), cr.credentials) IN
       IF CrPickThrows(picked)
       THEN cr' = [cr EXCEPT !.pc = "failed", !.failedAt = "pick", !.picked = picked]
       ELSE cr' = [cr EXCEPT !.pc = "sign", !.picked = picked]
    /\ UNCHANGED <<request, wallet, programs, compiledReq, progCompiles, uc, creates, crStat, vf>>
    /\ UNCHANGED <<pickVars, compileVars, recVars>>

\* let ownerSignature = signCredentials(ownerKey, context, ...)
CrSign ==
    /\ cr.pc = "sign"
    /\ cr' = [cr EXCEPT !.pc = "run",
                 !.ownerSignature =
                     signCredentials(OwnerKey, cr.context, cr.picked.credentialsUsed)]
    /\ UNCHANGED <<request, wallet, programs, compiledReq, progCompiles, uc, creates, crStat, vf>>
    /\ UNCHANGED <<pickVars, compileVars, recVars>>

\* signCredentials throws
CrSignFail ==
    /\ cr.pc = "sign"
    /\ Fail("sign")
    /\ UNCHANGED <<request, wallet, programs, compiledReq, progCompiles, uc, creates, crStat, vf>>
    /\ UNCHANGED <<pickVars, compileVars, recVars>>

\* program.run({ context, claims, ownerSignature, credentials }) is invoked
CrRun ==
    /\ cr.pc = "run"
    /\ cr' = [cr EXCEPT !.pc = "running", !.runs = @ + 1,
                 !.inputs = RunInputs(cr.context, request, cr.ownerSignature,
                                      cr.picked.credentialsUsed)]
    /\ UNCHANGED <<request, wallet, programs, compiledReq, progCompiles, uc, creates, crStat, vf>>
    /\ UNCHANGED <<pickVars, compileVars, recVars>>

\* program.run resolved with the proof: the Presentation is returned
CrRunDone ==
    /\ cr.pc = "running"
    /\ RunAccepts(cr.inputs)
    /\ cr' = [cr EXCEPT !.pc = "returned",
                 !.result = Presentation(request, RunProof(programs[cr.program], cr.inputs))]
    /\ crStat' = [crStat EXCEPT !.returned = @ + 1]
    /\ UNCHANGED <<request, wallet, programs, compiledReq, progCompiles, uc, creates, vf>>
    /\ UNCHANGED <<pickVars, compileVars, recVars>>

\* program.run rejected (an assertion of the circuit does not hold)
CrRunFail ==
    /\ cr.pc = "running"
    /\ Fail("run")
    /\ UNCHANGED <<request, wallet, programs, compiledReq, progCompiles, uc, creates, crStat, vf>>
    /\ UNCHANGED <<pickVars, compileVars, recVars>>

\* Presentation.verify(vReq, <the presentation create returned>, vWc)
Verify(vReqs, vWcs) ==
    /\ cr.pc = "returned"
    /\ ~vf.done
    /\ \E vReq \in vReqs, vWc \in vWcs :
          vf' = [done |-> TRUE, request |-> vReq, walletContext |-> vWc,
                 res |-> verify(vReq, cr.result, vWc)]
    /\ UNCHANGED <<request, wallet, programs, compiledReq, progCompiles, uc, cr, creates, crStat>>
    /\ UNCHANGED <<pickVars, compileVars, recVars>>

CreateSteps ==
    \/ CrDerive
    \/ CrCompile
    \/ CrCompileDone
    \/ CrCompileFail
    \/ CrPick
    \/ CrSign
    \/ CrSignFail
    \/ CrRun
    \/ CrRunDone
    \/ CrRunFail

\* the wallet's flow: compile, several creates, the verifier checks each
\* presentation against the request it sent and the context the wallet used
InitCreate == CreateStart(FlowRequests, WalletContexts, CreatePools)

CreateCallFlow ==
    CreateCall({"plain", "compiled"}, MaxCreates)

VerifySame == Verify({request}, {cr.walletContext})

NextCreate ==
    \/ UserCompileCall
    \/ UserCompileDone
    \/ UserCompileFail
    \/ CreateCallFlow
    \/ CreateSteps
    \/ VerifySame

SpecCreate == InitCreate /\ [][NextCreate]_vars

\* one create of any request, verified against any request and wallet context
InitContext == CreateStart(Requests, WalletContexts, ContextPools)

CreateCallOnce == CreateCall({"plain"}, 1)

VerifyAny == Verify(Requests, WalletContexts)

NextContext ==
    \/ CreateCallOnce
    \/ CreateSteps
    \/ VerifyAny

SpecContext == InitContext /\ [][NextContext]_vars

(***************************************************************************)
(* Specification of the recursive credential's verify and issuer           *)
(***************************************************************************)
\* any credential spec, any witness (valid or not), any expected hash
InitRecursive ==
    /\ rcSpec \in RecSpecs
    /\ rcWitness \in RecWitnesses
    /\ rcCredHash \in CredHashes
    /\ rcRes = NoRecRes
    /\ PickIdle
    /\ CompileIdle
    /\ CreateIdle

\* spec.verify(witness, credHash), run in the circuit
RcVerify ==
    /\ rcRes.verify = "none"
    /\ rcRes' = [rcRes EXCEPT !.verify =
                    IF rcSpec = "Recursive"
                    THEN RecursiveVerify(rcWitness, rcCredHash)
                    ELSE GenericVerify(rcWitness, rcCredHash)]
    /\ UNCHANGED <<rcSpec, rcWitness, rcCredHash>>
    /\ UNCHANGED <<pickVars, compileVars, createVars>>

\* await spec.verifyOutsideCircuit(witness, credHash)
RcVerifyOutsideCircuit ==
    /\ rcRes.verifyOutsideCircuit = "none"
    /\ rcRes' = [rcRes EXCEPT !.verifyOutsideCircuit =
                    IF rcSpec = "Recursive"
                    THEN RecursiveVerifyOutsideCircuit(rcWitness, rcCredHash)
                    ELSE GenericVerifyOutsideCircuit(rcWitness, rcCredHash)]
    /\ UNCHANGED <<rcSpec, rcWitness, rcCredHash>>
    /\ UNCHANGED <<pickVars, compileVars, createVars>>

\* spec.issuer(witness)
RcIssuer ==
    /\ ~rcRes.issuerCalled
    /\ rcRes' = [rcRes EXCEPT !.issuerCalled = TRUE,
                              !.issuer = IF rcSpec = "Recursive"
                                         THEN RecursiveIssuer(rcWitness)
                                         ELSE GenericIssuer(rcWitness)]
    /\ UNCHANGED <<rcSpec, rcWitness, rcCredHash>>
    /\ UNCHANGED <<pickVars, compileVars, createVars>>

NextRecursive ==
    \/ RcVerify
    \/ RcVerifyOutsideCircuit
    \/ RcIssuer

SpecRecursive == InitRecursive /\ [][NextRecursive]_vars

(***************************************************************************)
(* Claims about pickCredentials                                            *)
(***************************************************************************)
\* C1: in a successful selection, a credential that carries a key tag is only
\* bound to the needed key equal to its tag.
C1_TaggedOnlyOwnKey ==
    pkPc = "returned" =>
        \A k \in BoundKeys(pkRes.credentialsUsed) :
            pkRes.credentialsUsed[k].key # NoKey => pkRes.credentialsUsed[k].key = k

\* C8: pickCredentials throws exactly when a needed key is unbound after both
\* passes, the error names exactly the unbound needed keys, and a return binds
\* every needed key.
C8_MissingExactlyUnbound ==
    pkPc # "call" =>
        LET unbound == SeqRange(pkNeeded) \ BoundKeys(pkRes.credentialsUsed) IN
        /\ (pkPc = "threw") <=> (unbound # {})
        /\ pkPc = "threw" =>
              /\ SeqRange(pkRes.missing) = unbound
              /\ IsInjective(pkRes.missing)
        /\ pkPc = "returned" =>
              SeqRange(pkNeeded) \subseteq BoundKeys(pkRes.credentialsUsed)

\* C8 witness: a call that threw naming one key while another key was bound
C8_Witness ==
    /\ pkPc = "threw"
    /\ Len(pkRes.missing) = 1
    /\ BoundKeys(pkRes.credentialsUsed) # {}

\* needed keys for which the caller's array holds a credential tagged with them
TagBoundKeys == {k \in SeqRange(pkNeeded) : \E i \in DOMAIN pkCreds : pkCreds[i].key = k}
\* the first position of the caller's array that carries tag k
FirstTagged(k) ==
    CHOOSE i \in DOMAIN pkCreds :
        /\ pkCreds[i].key = k
        /\ \A j \in 1..(i - 1) : pkCreds[j].key # k
\* the caller's array without the credentials the tag pass should take
PoolAfterTagPass ==
    LET Left(c) == \A k \in TagBoundKeys : c # pkCreds[FirstTagged(k)]
    IN  SelectSeq(pkCreds, Left)
\* the needed keys the tag pass should leave unbound, in needed order
KeysLeftByTagPass ==
    LET Untagged(k) == k \notin TagBoundKeys
    IN  SelectSeq(pkNeeded, Untagged)

\* C14: the tag pass is first-fit by tag. Every needed key for which the pool
\* holds a credential tagged with it is bound to the first such credential in
\* pool order, whatever untagged or otherwise tagged credentials precede it,
\* and that credential is removed from the working pool: the pool the fill
\* pass sees is the caller's array without exactly these credentials, in the
\* same order.
C14_TagPassFirstFit ==
    pkPc # "call" =>
        /\ \A k \in TagBoundKeys :
              /\ pkRes.credentialsUsed[k] = pkCreds[FirstTagged(k)]
              /\ \A j \in DOMAIN pkRes.credentials :
                    pkRes.credentials[j] # pkCreds[FirstTagged(k)]
        /\ pkRes.credentials = PoolAfterTagPass

\* C14 witness: a key bound to the first of two credentials tagged with it,
\* behind an untagged credential
C14_Witness ==
    /\ pkPc = "returned"
    /\ \E k \in TagBoundKeys :
          /\ FirstTagged(k) > 1
          /\ pkCreds[1].key = NoKey
          /\ \E i \in DOMAIN pkCreds : i > FirstTagged(k) /\ pkCreds[i].key = k
          /\ pkRes.credentialsUsed[k].id = FirstTagged(k)

\* C15: the fill pass preserves encounter order. The j-th needed key left
\* unbound by the tag pass is bound to the j-th credential of the remaining
\* pool, so an earlier unbound key gets a credential that precedes the one of
\* a later unbound key in the pool; the pass stops when the unbound keys or
\* the pool are exhausted: keys beyond the pool stay unbound and are the ones
\* reported missing, and nothing but needed keys is bound.
C15_FillPassEncounterOrder ==
    pkPc # "call" =>
        LET left == KeysLeftByTagPass
            pool == PoolAfterTagPass
        IN  /\ \A j \in DOMAIN left :
                  pkRes.credentialsUsed[left[j]] =
                      IF j <= Len(pool) THEN pool[j] ELSE NoCred
            /\ \A j1, j2 \in DOMAIN left :
                  j1 < j2 /\ j2 <= Len(pool) =>
                      pkRes.credentialsUsed[left[j1]].id < pkRes.credentialsUsed[left[j2]].id
            /\ pkRes.missing = SubSeq(left, Len(pool) + 1, Len(left))
            /\ BoundKeys(pkRes.credentialsUsed) \subseteq SeqRange(pkNeeded)

\* C15 witness: two keys served by the fill pass, in order, from a pool that
\* the tag pass had shortened and that was not used up
C15_Witness ==
    /\ pkPc = "returned"
    /\ Len(KeysLeftByTagPass) = 2
    /\ TagBoundKeys # {}
    /\ pkRes.credentialsUsed[KeysLeftByTagPass[1]].id
          < pkRes.credentialsUsed[KeysLeftByTagPass[2]].id

\* C19: a successful selection is an injective assignment whose domain is
\* exactly the needed keys: every needed key is bound to one credential of the
\* caller's array, no other key is bound, and no position of the array is
\* bound to two different keys.
C19_InjectiveAssignment ==
    pkPc = "returned" =>
        /\ BoundKeys(pkRes.credentialsUsed) = SeqRange(pkNeeded)
        /\ \A k \in SeqRange(pkNeeded) :
              \E i \in DOMAIN pkCreds : pkRes.credentialsUsed[k] = pkCreds[i]
        /\ \A k1, k2 \in SeqRange(pkNeeded) :
              pkRes.credentialsUsed[k1].id = pkRes.credentialsUsed[k2].id => k1 = k2

\* C19 witness: three needed keys, one served by its tag and the others by the
\* fill pass, bound to the three positions of the array
C19_Witness ==
    /\ pkPc = "returned"
    /\ Len(pkNeeded) = 3
    /\ Cardinality(TagBoundKeys) = 1
    /\ {pkRes.credentialsUsed[k].id : k \in SeqRange(pkNeeded)} = 1..3

\* C21: pickCredentials leaves the caller's credential array unchanged: over
\* any call, returning or throwing, the array passed in keeps the same
\* elements in the same order, although the tag pass removes the credentials
\* it binds from its working pool.
C21_CallerListUnchanged == [][pkCreds' = pkCreds]_vars

\* C21 witness: a call that threw after the tag pass had removed a credential
\* from the working pool, with the caller's two credentials still in place
C21_Witness ==
    /\ pkPc = "threw"
    /\ BoundKeys(pkRes.credentialsUsed) \cap TagBoundKeys # {}
    /\ Len(pkRes.credentials) < Len(pkCreds)
    /\ Len(pkCreds) = 2
    /\ \A i \in DOMAIN pkCreds : pkCreds[i].id = i


(***************************************************************************)
StartedBeforeAnyFinished == {c \in CallIds : cc[c].pc # "idle" /\ cc[c].beforeAnyFinished}

\* C2: compile() calls that all start before any of them has finished invoke
\* the backend program.compile exactly once and all receive the same key.
C2_ConcurrentCollapse ==
    Cardinality(StartedBeforeAnyFinished) >= 2 =>
        /\ Cardinality({c \in StartedBeforeAnyFinished : cc[c].invoked # 0}) = 1
        /\ \A c, d \in StartedBeforeAnyFinished :
              cc[c].pc = "done" /\ cc[d].pc = "done" => cc[c].ret = cc[d].ret

\* C3: a compile() without forced recompile that starts after a compile() has
\* completed successfully returns the cached verification key and does not
\* invoke the backend; when the calls are made one after the other and none
\* has failed, the backend compile count stays at 1 and every call has
\* returned the one cached key.
C3_SequentialIdempotent ==
    /\ \A c \in CallIds :
          cc[c].pc # "idle" /\ cc[c].sawCompiled /\ ~cc[c].forceRecompile =>
              /\ cc[c].invoked = 0
              /\ cc[c].pc = "done"
              /\ cc[c].ret = cc[c].cachedAtEntry
              /\ cc[c].ret # NoVK
    /\ (isCompiled /\ ~overlapped /\ \A c \in CallIds : cc[c].pc # "failed") =>
          /\ backendCompiles = 1
          /\ \A c \in CallIds : cc[c].pc = "done" => cc[c].ret = vk

\* C3 witness: two later calls returned the cached key after a first, completed one
C3_Witness ==
    /\ ~overlapped
    /\ backendCompiles = 1
    /\ Cardinality({c \in CallIds : cc[c].pc = "done" /\ cc[c].sawCompiled
                                    /\ ~cc[c].forceRecompile /\ cc[c].ret = vk}) >= 2

\* C13: a compile() with forced recompile made on an instance that is already
\* compiled invokes the backend program.compile again instead of returning
\* the cached key; only the calls without forced recompile return without
\* invoking the backend.
C13_ForcedRecompileRuns ==
    \A c \in CallIds :
        cc[c].pc # "idle" /\ cc[c].sawCompiled =>
            (cc[c].forceRecompile <=> cc[c].invoked # 0)

SucceededCalls == {c \in CallIds : cc[c].pc = "done" /\ cc[c].invoked # 0}

\* C20: the cache is never torn. isCompiled holds exactly when vk is set, and
\* then some backend compilation has succeeded and vk is the key it returned;
\* a failed backend compilation assigns nothing and its call returns no key;
\* a call that returned has returned a key, never undefined; and a call that
\* starts while the cache is unset, in particular after a failure, invokes
\* the backend again.
C20_CacheNeverTorn ==
    /\ isCompiled <=> vk # NoVK
    /\ isCompiled => \E c \in SucceededCalls : vk = BackendVK(cc[c].invoked)
    /\ SucceededCalls = {} => ~isCompiled
    /\ \A c \in CallIds :
          /\ cc[c].pc = "failed" => cc[c].ret = NoVK /\ cc[c].invoked # 0
          /\ cc[c].pc = "done" => cc[c].ret # NoVK
          /\ cc[c].pc # "idle" /\ ~cc[c].sawCompiled => cc[c].invoked # 0

\* C20 witness: a backend compilation failed and left the cache unset, the
\* next call started after it, ran the backend again and filled the cache
C20_Witness ==
    \E c, d \in CallIds :
        /\ c < d
        /\ cc[c].pc = "failed"
        /\ ~cc[d].beforeAnyFinished /\ ~cc[d].sawCompiled
        /\ cc[d].pc = "done" /\ cc[d].invoked # 0
        /\ isCompiled /\ vk = cc[d].ret
        /\ ~overlapped

(***************************************************************************)
(* Claims about Presentation.compile, create and verify                    *)
(***************************************************************************)
InFlight == cr.pc \notin {"idle", "returned", "failed"}

\* C4: over a sequence of create calls that are all handed the same request
\* object (none of which failed), at most one program is created and the
\* backend compilation runs at most once.
C4_CompileOncePerRequest ==
    (/\ Cardinality(crStat.reqs) <= 1
     /\ crStat.returned = creates - (IF InFlight THEN 1 ELSE 0)) =>
        /\ crStat.made <= 1
        /\ crStat.compiles <= 1

\* C9: a create in which context derivation, compilation, credential
\* selection or signing failed has not invoked program.run and returns no
\* Presentation; a failed run was the only run and returns none either; a
\* create whose pickCredentials threw has stopped there, before any run.
C9_FailureAbortsCreate ==
    /\ cr.pc = "failed" =>
          /\ cr.result = NoPresentation
          /\ cr.failedAt \in {"derive", "compile", "pick", "sign"} => cr.runs = 0
          /\ cr.failedAt = "run" => cr.runs = 1
    /\ cr.picked.missing # <<>> =>
          /\ cr.pc = "failed" /\ cr.failedAt = "pick"
          /\ cr.runs = 0
          /\ cr.result = NoPresentation
    /\ cr.result # NoPresentation => cr.pc = "returned"

\* C9 witness: the second create of a wallet failed on missing credentials
C9_Witness ==
    /\ creates = 2
    /\ cr.pc = "failed"
    /\ cr.failedAt = "pick"
    /\ cr.picked.missing # <<>>

\* C10: verifying the presentation create returned, against the same request
\* and wallet context, succeeds and returns the presentation's outputClaim,
\* which is the public output of the proof of the program run (the plain
\* evaluation of the output claim over the selected credentials).
C10_RoundTrip ==
    (vf.done /\ vf.request = request /\ vf.walletContext = cr.walletContext) =>
        /\ vf.res.ok
        /\ vf.res.outputClaim = cr.result.outputClaim
        /\ cr.result.outputClaim = cr.result.proof.publicOutput
        /\ cr.result.proof.publicOutput =
              OutputClaim(request.programSpec, request.claims, cr.picked.credentialsUsed)

\* C10 witness: a contextful presentation over two credentials was verified
C10_Witness ==
    /\ vf.done /\ vf.res.ok
    /\ request.kind = "withContext"
    /\ request.programSpec = "B"
    /\ BoundKeys(cr.picked.credentialsUsed) = {"a", "b"}

\* the components of the context tuple in which verification differs from creation
ContextDiff ==
    {n \in {"action", "serverNonce", "claims"} : vf.request[n] # request[n]}
    \cup {n \in {"clientNonce", "verifierIdentity"} :
            vf.walletContext[n] # cr.walletContext[n]}

\* a verification of a contextful presentation under a contextful request of
\* the same type tag, key hash and program, with a wallet context given
ContextfulVerification ==
    /\ vf.done
    /\ request.kind = "withContext" /\ vf.request.kind = "withContext"
    /\ vf.walletContext.present
    /\ vf.request.type = request.type
    /\ vf.request.presentationCircuitVKHash = request.presentationCircuitVKHash
    /\ vf.request.programSpec = request.programSpec

\* C5: if the tuple (action, serverNonce, clientNonce, verifierIdentity,
\* claims) at verification differs in one component from the one at creation,
\* the two contexts differ and verification fails; if none differs the
\* contexts are identical (and verification succeeds).
C5_ContextBinding ==
    ContextfulVerification =>
        /\ Cardinality(ContextDiff) = 1 =>
              vf.res.context # cr.context /\ ~vf.res.ok
        /\ ContextDiff = {} => vf.res.context = cr.context /\ vf.res.ok

\* C5 witness: verification under another client nonce only, which failed
C5_Witness ==
    /\ ContextfulVerification
    /\ ContextDiff = {"clientNonce"}
    /\ ~vf.res.ok

\* the verification-key-hash input of a derived context (second hash input)
ContextVKHash(context) == context[3]

\* C6: the key-hash component of a contextful request's context is the key
\* hash of the program of the request's programSpec, and the context of a
\* request never equals that of the otherwise identical request over another
\* program.
C6_ContextBoundToProgram ==
    /\ (request.kind = "withContext" /\ cr.pc \notin {"idle", "derive"}
            /\ cr.failedAt # "derive") =>
          ContextVKHash(cr.context) = VKHashOf(request.programSpec)
    /\ (/\ vf.done /\ request.kind = "withContext"
        /\ vf.walletContext = cr.walletContext
        /\ vf.request.programSpec # request.programSpec
        /\ vf.request = [request EXCEPT !.programSpec = vf.request.programSpec]) =>
          vf.res.context # cr.context

\* C7: deriveContext of a contextless request never fails and is Field(0) for
\* every wallet context, the absent one included, and the presentation
\* verifies against the request under any wallet context.
C7_ContextlessSentinel ==
    request.kind = "noContext" =>
        /\ cr.failedAt # "derive"
        /\ cr.pc \notin {"idle", "derive"} => cr.context = FieldZero
        /\ (vf.done /\ vf.request = request) =>
              /\ vf.res.ok
              /\ vf.res.context = FieldZero
              /\ vf.res.outputClaim = cr.result.outputClaim

\* C7 witness: created with a wallet context, verified without one
C7_Witness ==
    /\ request.kind = "noContext"
    /\ vf.done /\ vf.request = request
    /\ cr.walletContext.present /\ ~vf.walletContext.present
    /\ vf.res.ok

\* what the steps of the current create have left behind
DeriveCompleted == cr.pc \notin {"idle", "derive"} /\ cr.failedAt # "derive"
CompileStarted == cr.program # 0
CompileCompleted == CompileStarted /\ programs[cr.program].compiled
PickStarted == cr.picked # NoPickRes
SignCompleted == cr.ownerSignature # NoSignature
RunStarted == cr.runs > 0
Assembled == cr.result # NoPresentation
DerivedContext == deriveContext(request, cr.walletContext).context

\* C16: within one create call the steps run in the order derive context,
\* compile, select credentials, ownership signature, run program, assemble
\* the Presentation, each starting only after the one before it completed (a
\* failed step ends the call); the program run never starts before the
\* compile has completed; and the context given to the signature and to the
\* program run is the one derived in the first step.
C16_StepOrder ==
    /\ CompileStarted => DeriveCompleted
    /\ PickStarted => CompileCompleted
    /\ SignCompleted => PickStarted /\ cr.picked.ok
    /\ RunStarted => SignCompleted /\ CompileCompleted /\ cr.runs = 1
    /\ Assembled => RunStarted /\ cr.pc = "returned"
    /\ DeriveCompleted => cr.context = DerivedContext
    /\ SignCompleted =>
          /\ cr.ownerSignature.context = DerivedContext
          /\ cr.ownerSignature.credentials = cr.picked.credentialsUsed
    /\ RunStarted =>
          /\ cr.inputs.context = DerivedContext
          /\ cr.inputs.ownerSignature = cr.ownerSignature
          /\ cr.inputs.credentials = cr.picked.credentialsUsed
    /\ cr.pc = "failed" =>
          /\ cr.failedAt \in {"derive"} => ~CompileStarted
          /\ cr.failedAt \in {"derive", "compile"} => ~PickStarted
          /\ cr.failedAt \in {"derive", "compile", "pick"} => ~SignCompleted
          /\ cr.failedAt \in {"derive", "compile", "pick", "sign"} => ~RunStarted
          /\ ~Assembled

\* C16 witness: a create on a contextful request that compiled its program
\* itself, went through every step and returned
C16_Witness ==
    /\ cr.pc = "returned"
    /\ cr.reqObj = "plain"
    /\ request.kind = "withContext"
    /\ cr.context # FieldZero
    /\ cr.inputs.context = cr.context
    /\ Assembled

\* C18: every Presentation a create returns has version 'v0', the claims of
\* the request and, as outputClaim, the public output of the proof it
\* carries; that proof comes from the one program run of the call, whose
\* inputs were the derived context and the same claims.
C18_PresentationShape ==
    /\ Assembled <=> cr.pc = "returned"
    /\ cr.pc = "returned" =>
          /\ cr.result.version = "v0"
          /\ cr.result.claims = request.claims
          /\ cr.result.outputClaim = cr.result.proof.publicOutput
          /\ cr.runs = 1
          /\ cr.inputs.context = DerivedContext
          /\ cr.inputs.claims = request.claims
          /\ cr.result.proof.publicInput =
                [context |-> cr.inputs.context, claims |-> cr.inputs.claims]
          /\ cr.result.proof.publicOutput =
                OutputClaim(request.programSpec, request.claims, cr.inputs.credentials)

\* C18 witness: the second create of a flow returned a Presentation for a
\* contextful request
C18_Witness ==
    /\ creates = 2
    /\ cr.pc = "returned"
    /\ cr.result.version = "v0"
    /\ cr.result.proof.publicInput.context # FieldZero
    /\ cr.result.claims = request.claims

(***************************************************************************)
(* Claims about the recursive credential                                   *)
(***************************************************************************)
\* the inner proof is one of the program with the witness's key
InnerProofValid == rcWitness.proof.provedWith = rcWitness.vk.hash
\* the expected hash is the hash of the credential the proof outputs
OutputHashMatches ==
    rcCredHash.hash = <<"hash", rcWitness.proof.publicOutput.owner,
                        rcWitness.proof.publicOutput.data>>

\* C11: for Recursive(...) and for Recursive.Generic, verify and
\* verifyOutsideCircuit accept exactly the same (vk, proof, credHash): each
\* accepts if and only if the inner proof is valid under vk and the hash of
\* the proof's public output equals credHash.
C11_VerifyPathsAgree ==
    /\ rcRes.verify # "none" =>
          (rcRes.verify = "ok" <=> InnerProofValid /\ OutputHashMatches)
    /\ rcRes.verifyOutsideCircuit # "none" =>
          (rcRes.verifyOutsideCircuit = "ok" <=> InnerProofValid /\ OutputHashMatches)
    /\ rcRes.verify # "none" /\ rcRes.verifyOutsideCircuit # "none" =>
          (rcRes.verify = "ok" <=> rcRes.verifyOutsideCircuit = "ok")

\* C11 witness: both paths were run on a forged proof whose output hashes to
\* the expected hash, and both rejected it
C11_Witness ==
    /\ rcWitness.proof.provedWith = "forged"
    /\ OutputHashMatches
    /\ rcRes.verify = "Invalid proof"
    /\ rcRes.verifyOutsideCircuit = "Invalid proof"

\* C12: a recursive credential whose inner proof's public output hashes to a
\* value other than the expected credential hash is rejected by verify and by
\* verifyOutsideCircuit, also when the inner proof is valid (then with
\* 'Invalid proof output'): the declared credential data is never accepted in
\* place of the proof's actual output.
C12_OutputMismatchRejected ==
    ~OutputHashMatches =>
        /\ rcRes.verify \in
              {"none", IF InnerProofValid THEN "Invalid proof output" ELSE "Invalid proof"}
        /\ rcRes.verifyOutsideCircuit \in
              {"none", IF InnerProofValid THEN "Invalid proof output" ELSE "Invalid proof"}

\* C12 witness: a valid inner proof, an expected hash of other credential
\* data, rejected on both paths
C12_Witness ==
    /\ InnerProofValid
    /\ ~OutputHashMatches
    /\ rcRes.verify = "Invalid proof output"
    /\ rcRes.verifyOutsideCircuit = "Invalid proof output"

\* issuer of the credential spec in use, for any witness
IssuerOf(witness) ==
    IF rcSpec = "Recursive" THEN RecursiveIssuer(witness) ELSE GenericIssuer(witness)

\* C17: the issuer of a recursive credential is a function of exactly the
\* verification key hash and the inner proof's public input: a witness with
\* the same vk hash and public input has the same issuer whatever its public
\* output and validity, a witness that differs in either has a different
\* issuer, and Recursive(...).issuer and Recursive.Generic.issuer agree.
C17_IssuerFunctionOfKeyAndInput ==
    rcRes.issuerCalled =>
        /\ \A w \in RecWitnesses :
              (/\ w.vk.hash = rcWitness.vk.hash
               /\ w.proof.publicInput = rcWitness.proof.publicInput)
                  <=> IssuerOf(w) = rcRes.issuer
        /\ rcRes.issuer = RecursiveIssuer(rcWitness)
        /\ rcRes.issuer = GenericIssuer(rcWitness)

\* C17 witness: the issuer of a generic recursive credential was computed,
\* for a public input whose two fields differ
C17_Witness ==
    /\ rcRes.issuerCalled
    /\ rcSpec = "Generic"
    /\ rcWitness.proof.publicInput.first # rcWitness.proof.publicInput.second
    /\ rcRes.issuer # NoIssuer

====
